---- MODULE Spec2Model ----
(***************************************************************************)
(* A model of dbimgtoolset.py: the single-image session of the Tk App, the *)
(* ExifTool reader and writer, the strip-argument builder, the watermark   *)
(* and the SAFE pipeline.                                                  *)
(*                                                                         *)
(* Byte buffers are records: [k |-> "none"] (Python None), "empty" (b""),  *)
(* "corrupt" (bytes PIL cannot identify) and "img" (an encoded image with  *)
(* its container format, colour mode, the value of the pixel under the     *)
(* watermark glyph, whether the background is still there, and the set of  *)
(* metadata categories it carries).                                        *)
(***************************************************************************)
EXTENDS Integers, Sequences, FiniteSets, TLC

VARIABLES
    EXIFTOOL,        \* module global: ExifTool was found at import time
    REMBG_OK,        \* module global: rembg could be imported
    original_path,   \* App.original_path
    original_bytes,  \* App.original_bytes
    current_bytes,   \* App.current_bytes
    current_image,   \* App.current_image
    current_exif,    \* App.current_exif (the set of keys of the mapping)
    current_ext,     \* App.current_ext
    rembg_session,   \* hasattr(self, "_rembg_session")
    buttons,         \* has_img as of the last _update_buttons()
    msg,             \* the dialog the last handler showed ("none": no dialog)
    op,              \* the handler that ran last
    tmpfiles,        \* the temporary files the last direct call left on disk
    calls,           \* the collaborators the last handler invoked, in order
    sets,            \* the buffers the last handler passed to _set_from_bytes
    rd,              \* the last direct call of read_exif_from_bytes
    wr,              \* the last direct call of exiftool_write_from_bytes
    bs,              \* the last direct call of build_strip_args
    sm               \* the last direct call of summarize_exif

vars == <<EXIFTOOL, REMBG_OK, original_path, original_bytes, current_bytes,
          current_image, current_exif, current_ext, rembg_session, buttons, msg,
          op, tmpfiles, calls, sets, rd, wr, bs, sm>>

-----------------------------------------------------------------------------
(* Values *)

None == [k |-> "none"]

EmptyBytes == [k |-> "empty"]

CorruptBytes == [k |-> "corrupt"]

Categories == {"gps", "device", "datetime"}

ImgBytes(fmt, mode, px, bg, meta) ==
    [k |-> "img", fmt |-> fmt, mode |-> mode, px |-> px, bg |-> bg, meta |-> meta]

\* `not data`: None and b"" are both falsy
Falsy(data) == data.k \in {"none", "empty"}

-----------------------------------------------------------------------------
(* Imaging *)

\* Image.open(BytesIO(data)): the decoded image, or Raise when PIL cannot
\* identify the bytes
Raise == [k |-> "raise"]

open_image_any(data) ==
    IF data.k = "img" THEN [data EXCEPT !.k = "image"] ELSE Raise

\* img.save(buf, "PNG"): the encoder writes the pixels and no EXIF block
to_png_bytes(img) ==
    ImgBytes("PNG", img.mode, img.px, img.bg, {})

ensure_rgb(img) ==
    IF img.mode \in {"RGBA", "LA", "P"} THEN [img EXCEPT !.mode = "RGB"] ELSE img

Max(a, b) == IF a >= b THEN a ELSE b

Min(a, b) == IF a <= b THEN a ELSE b

ChannelMax == 255

OpacityFloor == 10

SafeOpacity == 160

\* Image.alpha_composite of a white glyph pixel of alpha a over an opaque
\* pixel of value p, rounded to the nearest 8-bit value
alpha_composite(p, a) ==
    (ChannelMax * a + p * (ChannelMax - a) + (ChannelMax \div 2)) \div ChannelMax

add_watermark(img, opacity) ==
    [img EXCEPT !.mode = "RGBA",
                !.px = alpha_composite(img.px, Max(OpacityFloor, Min(opacity, ChannelMax)))]

\* rembg.remove(data): PNG bytes of the subject on a transparent background
rembg_remove(data) ==
    ImgBytes("PNG", "RGBA", data.px, FALSE, {})

\* img.save(buf, fmt) in action_convert
save_as(img, fmt) ==
    ImgBytes(fmt, img.mode, img.px, img.bg, {})

-----------------------------------------------------------------------------
(* Strip-argument builder *)

Elems(s) == {s[i] : i \in 1..Len(s)}

GPS_ARGS == <<"-GPS:all=">>

\* DEVICE_ARGS with one directive ("-LensID=") left out
DEVICE_ARGS_nine == <<"-Make=", "-Model=", "-SerialNumber=", "-BodySerialNumber=",
                      "-CameraSerialNumber=", "-LensSerialNumber=", "-LensModel=",
                      "-Artist=", "-OwnerName=">>

DEVICE_ARGS == <<"-Make=", "-Model=", "-SerialNumber=", "-BodySerialNumber=",
                 "-CameraSerialNumber=", "-LensSerialNumber=", "-LensModel=",
                 "-LensID=", "-Artist=", "-OwnerName=">>

DATETIME_ARGS == <<"-DateTimeOriginal=", "-CreateDate=", "-ModifyDate=",
                   "-SubSecTime*=", "-OffsetTime*=">>

ArgsOf(c) ==
    CASE c = "gps" -> GPS_ARGS
      [] c = "device" -> DEVICE_ARGS
      [] c = "datetime" -> DATETIME_ARGS
      [] OTHER -> <<>>

RECURSIVE ConcatArgs(_)

ConcatArgs(categories) ==
    IF categories = <<>> THEN <<>>
    ELSE ArgsOf(Head(categories)) \o ConcatArgs(Tail(categories))

\* build_strip_args appending the directives in the order the categories
\* are given
build_strip_args_input_order(categories) == ConcatArgs(categories)

build_strip_args(categories) ==
    (IF "gps" \in Elems(categories) THEN GPS_ARGS ELSE <<>>)
    \o (IF "device" \in Elems(categories) THEN DEVICE_ARGS ELSE <<>>)
    \o (IF "datetime" \in Elems(categories) THEN DATETIME_ARGS ELSE <<>>)

AllCategories == <<"gps", "device", "datetime">>

-----------------------------------------------------------------------------
(* The ExifTool process *)

\* what ExifTool clears from an image when run with the given directives
Cleared(args_list) ==
    (IF "-GPS:all=" \in Elems(args_list) THEN {"gps"} ELSE {})
    \cup (IF "-Make=" \in Elems(args_list) THEN {"device"} ELSE {})
    \cup (IF "-DateTimeOriginal=" \in Elems(args_list) THEN {"datetime"} ELSE {})

\* the file ExifTool writes to temp_out: the input with the fields cleared,
\* or an unusable file when the run broke off (good = FALSE) or the input
\* was no image
ExifToolOutput(data, args_list, good) ==
    IF data.k = "img" /\ good
    THEN [data EXCEPT !.meta = data.meta \ Cleared(args_list)]
    ELSE CorruptBytes

ExitStatuses == {0, 1, 2}

WriterEnvs ==
    [tmpOk : BOOLEAN, exit : ExitStatuses, outExists : BOOLEAN,
     good : BOOLEAN, readOk : BOOLEAN]

\* exiftool_write_from_bytes raising on every exit status other than 0 and 1,
\* whether or not an output file exists
exiftool_write_no_salvage(tool, data, args_list, e) ==
    IF ~tool
    THEN [err |-> "unavailable", out |-> None, files |-> {}, ran |-> FALSE]
    ELSE IF ~e.tmpOk
    THEN [err |-> "io", out |-> None, files |-> {"temp_in"}, ran |-> FALSE]
    ELSE IF e.exit \notin {0, 1}
    THEN [err |-> "exec", out |-> None, files |-> {}, ran |-> TRUE]
    ELSE IF ~e.readOk
    THEN [err |-> "io", out |-> None, files |-> {}, ran |-> TRUE]
    ELSE [err |-> "none",
          out |-> IF e.outExists THEN ExifToolOutput(data, args_list, e.good) ELSE data,
          files |-> {}, ran |-> TRUE]

\* the finally clause: os.remove of every path given, when it exists
Removed(files, paths) == files \ paths

\* exiftool_write_from_bytes: err is "none" when it returns out, and else
\* the failure it raises; ran tells whether the ExifTool process was started;
\* files are the temporary files that exist once the call is over.  The
\* temporary input file is created and written before the try block.
exiftool_write_from_bytes(tool, data, args_list, e) ==
    IF ~tool
    THEN [err |-> "unavailable", out |-> None, files |-> {}, ran |-> FALSE]
    ELSE IF ~e.tmpOk
    THEN [err |-> "io", out |-> None, files |-> {"temp_in"}, ran |-> FALSE]
    ELSE LET made == {"temp_in"} \cup (IF e.outExists THEN {"temp_out"} ELSE {})
             left == Removed(made, {"temp_in", "temp_out"})
             file == ExifToolOutput(data, args_list, e.good)
         IN  IF e.exit \notin {0, 1}
             THEN IF e.outExists
                  THEN IF e.readOk
                       THEN [err |-> "none", out |-> file, files |-> left, ran |-> TRUE]
                       ELSE [err |-> "io", out |-> None, files |-> left, ran |-> TRUE]
                  ELSE [err |-> "exec", out |-> None, files |-> left, ran |-> TRUE]
             ELSE IF ~e.readOk
             THEN [err |-> "io", out |-> None, files |-> left, ran |-> TRUE]
             ELSE [err |-> "none", out |-> IF e.outExists THEN file ELSE data,
                   files |-> left, ran |-> TRUE]

-----------------------------------------------------------------------------
(* EXIF reading *)

\* the keys ExifTool reports (-j -n) and the keys PIL's EXIF block holds
ToolTags(meta) ==
    (IF "gps" \in meta THEN {"GPSLatitude", "GPSLongitude"} ELSE {})
    \cup (IF "device" \in meta THEN {"Make", "Model"} ELSE {})
    \cup (IF "datetime" \in meta THEN {"DateTimeOriginal"} ELSE {})

ExifToolJson(data) ==
    IF data.k = "img" THEN {"SourceFile"} \cup ToolTags(data.meta)
    ELSE {"SourceFile", "Error"}

Stdouts == {"json", "blank", "garbage"}

ReaderEnvs == [tmpOk : BOOLEAN, exit : ExitStatuses, stdout : Stdouts]

\* exiftool_json_from_bytes: the mapping's keys, or raised when the write
\* of the temporary file (which precedes the try block) fails
exiftool_json_from_bytes(tool, data, e) ==
    IF ~tool
    THEN [raised |-> FALSE, map |-> {}, files |-> {}]
    ELSE IF ~e.tmpOk
    THEN [raised |-> TRUE, map |-> {}, files |-> {"temp_in"}]
    ELSE LET left == Removed({"temp_in"}, {"temp_in"})
         IN  IF e.exit \notin {0, 1}
             THEN [raised |-> FALSE, map |-> {}, files |-> left]
             ELSE IF e.stdout = "json"
             THEN [raised |-> FALSE, map |-> ExifToolJson(data), files |-> left]
             ELSE [raised |-> FALSE, map |-> {}, files |-> left]

pil_exif_fallback(data) ==
    IF open_image_any(data) = Raise THEN {}
    ELSE IF data.meta = {} THEN {}
    ELSE ToolTags(data.meta) \cup (IF "gps" \in data.meta
                                   THEN {"GPSInfo", "GPSLatitudeRef", "GPSLongitudeRef"}
                                   ELSE {})

read_exif_from_bytes(tool, data, e) ==
    LET d == exiftool_json_from_bytes(tool, data, e)
    IN  IF d.raised
        THEN [raised |-> TRUE, map |-> {}, files |-> d.files]
        ELSE IF d.map # {}
        THEN [raised |-> FALSE, map |-> d.map, files |-> d.files]
        ELSE [raised |-> FALSE, map |-> pil_exif_fallback(data), files |-> d.files]

-----------------------------------------------------------------------------
(* The session *)

ImageState == <<current_bytes, current_image, current_exif, current_ext>>

\* what a handler leaves behind when it changes nothing and shows no dialog
Base ==
    [bytes |-> current_bytes, image |-> current_image, exif |-> current_exif,
     ext |-> current_ext, buttons |-> buttons, msg |-> "none",
     calls |-> <<>>, sets |-> <<>>, session |-> rembg_session,
     opath |-> original_path, obytes |-> original_bytes]

\* the handler's except clause: the dialog titled t, nothing else
Shown(s, t) == [s EXCEPT !.msg = t]

\* App._set_from_bytes on session s; title is the dialog of the caller's
\* except clause, shown when the EXIF refresh raises
set_from_bytes(s, data, ext_hint, title, e) ==
    LET s1 == [s EXCEPT !.bytes = data, !.sets = Append(s.sets, data)]
        img == open_image_any(data)
    IN  IF img = Raise
        THEN [s1 EXCEPT !.image = None, !.exif = {}, !.buttons = TRUE,
                        !.msg = "Cannot read image"]
        ELSE LET ext == IF ext_hint # "" THEN ext_hint ELSE s.ext
                 r == read_exif_from_bytes(EXIFTOOL, data, e)
                 s2 == [s1 EXCEPT !.image = img, !.ext = ext]
             IN  IF r.raised
                 THEN Shown(s2, title)
                 ELSE [s2 EXCEPT !.exif = r.map, !.buttons = TRUE]

\* the state after handler name, which left the session as s
Apply(name, s) ==
    /\ op' = name
    /\ current_bytes' = s.bytes
    /\ current_image' = s.image
    /\ current_exif' = s.exif
    /\ current_ext' = s.ext
    /\ buttons' = s.buttons
    /\ msg' = s.msg
    /\ calls' = s.calls
    /\ sets' = s.sets
    /\ rembg_session' = s.session
    /\ original_path' = s.opath
    /\ original_bytes' = s.obytes
    /\ UNCHANGED <<EXIFTOOL, REMBG_OK, tmpfiles, rd, wr, bs, sm>>

\* the outcomes of the ExifTool runs a session meets: one for each way
\* through the reader and through the writer
ReaderCases ==
    { [tmpOk |-> FALSE, exit |-> 0, stdout |-> "json"],
      [tmpOk |-> TRUE, exit |-> 0, stdout |-> "json"],
      [tmpOk |-> TRUE, exit |-> 2, stdout |-> "blank"] }

WriterCases ==
    { [tmpOk |-> FALSE, exit |-> 0, outExists |-> FALSE, good |-> TRUE, readOk |-> TRUE],
      [tmpOk |-> TRUE, exit |-> 0, outExists |-> TRUE, good |-> TRUE, readOk |-> TRUE],
      [tmpOk |-> TRUE, exit |-> 1, outExists |-> FALSE, good |-> TRUE, readOk |-> TRUE],
      [tmpOk |-> TRUE, exit |-> 1, outExists |-> TRUE, good |-> TRUE, readOk |-> FALSE],
      [tmpOk |-> TRUE, exit |-> 2, outExists |-> TRUE, good |-> TRUE, readOk |-> TRUE],
      [tmpOk |-> TRUE, exit |-> 2, outExists |-> TRUE, good |-> FALSE, readOk |-> TRUE],
      [tmpOk |-> TRUE, exit |-> 2, outExists |-> FALSE, good |-> TRUE, readOk |-> TRUE] }

-----------------------------------------------------------------------------
(* Collaborator calls inside a handler *)

Call(fn, args, ok) == [fn |-> fn, args |-> args, ok |-> ok]

\* build_strip_args followed by exiftool_write_from_bytes on session s
RunWriter(s, tool, data, categories, e) ==
    LET args_list == build_strip_args(categories)
        w == exiftool_write_from_bytes(tool, data, args_list, e)
    IN  [ok |-> w.err = "none", out |-> w.out,
         s |-> [s EXCEPT !.calls = Append(s.calls, Call("writer", args_list, w.err = "none"))]]

RembgOutcomes == {"ok", "session_fails", "remove_fails"}

\* rembg.new_session (once per App) and rembg.remove on session s: ok tells
\* whether it returned, out what it returned
RunRembg(s, data, o) ==
    IF ~s.session /\ o = "session_fails"
    THEN [ok |-> FALSE, out |-> None,
          s |-> [s EXCEPT !.calls = Append(s.calls, Call("rembg", <<>>, FALSE))]]
    ELSE LET ok == o = "ok" /\ open_image_any(data) # Raise
         IN  [ok |-> ok, out |-> IF ok THEN rembg_remove(data) ELSE None,
              s |-> [s EXCEPT !.session = TRUE,
                              !.calls = Append(s.calls, Call("rembg", <<>>, ok))]]

WatermarkOutcomes == {"ok", "fails"}

\* open_image_any + add_watermark + to_png_bytes on session s
RunWatermark(s, data, o) ==
    LET img == open_image_any(data)
        ok == img # Raise /\ o = "ok"
    IN  [ok |-> ok,
         out |-> IF ok THEN to_png_bytes(add_watermark(img, SafeOpacity)) ELSE None,
         s |-> [s EXCEPT !.calls = Append(s.calls, Call("watermark", <<>>, ok))]]

-----------------------------------------------------------------------------
(* Files the user can pick *)

NoPath == [stem |-> "", ext |-> ""]

Lower(ext) ==
    CASE ext = ".JPG" -> ".jpg"
      [] ext = ".PNG" -> ".png"
      [] OTHER -> ext

AllMeta == {"gps", "device", "datetime"}

\* a photo with all three kinds of metadata, and a scan with none, saved
\* without an extension; the pixel under the watermark glyph is bright, so
\* that repeated watermarks saturate it after two runs
PhotoBytes == ImgBytes("JPEG", "RGB", 253, TRUE, AllMeta)

ScanBytes == ImgBytes("PNG", "RGB", 253, TRUE, {})

OpenChoices ==
    { [picked |-> FALSE, path |-> NoPath, readable |-> FALSE, content |-> None],
      [picked |-> TRUE, path |-> [stem |-> "photo", ext |-> ".JPG"], readable |-> TRUE,
       content |-> PhotoBytes],
      [picked |-> TRUE, path |-> [stem |-> "scan", ext |-> ""], readable |-> TRUE,
       content |-> ScanBytes],
      [picked |-> TRUE, path |-> [stem |-> "notes", ext |-> ".txt"], readable |-> TRUE,
       content |-> CorruptBytes],
      [picked |-> TRUE, path |-> [stem |-> "blank", ext |-> ".png"], readable |-> TRUE,
       content |-> EmptyBytes],
      [picked |-> TRUE, path |-> [stem |-> "gone", ext |-> ".jpg"], readable |-> FALSE,
       content |-> None] }

SaveChoices == {"cancel", "ok", "fails"}

Formats == {"PNG", "JPEG"}

FormatExt(fmt) ==
    CASE fmt = "JPEG" -> ".jpeg"
      [] fmt = "PNG" -> ".png"
      [] fmt = "WEBP" -> ".webp"

-----------------------------------------------------------------------------
(* Handlers.  A button's handler can run only while _update_buttons left  *)
(* the button enabled.  Each handler is one step: the code has one thread  *)
(* and every handler runs to its end.                                      *)

action_open(f) ==
    IF ~f.picked THEN Apply("open", Base)
    ELSE IF ~f.readable THEN Apply("open", Shown(Base, "Open"))
    ELSE LET ext == IF Lower(f.path.ext) # "" THEN Lower(f.path.ext) ELSE ".jpg"
             s == [Base EXCEPT !.opath = f.path, !.obytes = f.content, !.ext = ext]
         IN  \E e \in ReaderCases :
                 Apply("open", set_from_bytes(s, f.content, ext, "Traceback", e))

action_save(c) ==
    /\ buttons
    /\ Apply("save",
             IF Falsy(current_bytes) \/ c # "fails" THEN Base ELSE Shown(Base, "Save"))

action_revert ==
    /\ buttons
    /\ IF original_bytes = None THEN Apply("revert", Base)
       ELSE \E e \in ReaderCases :
                Apply("revert", set_from_bytes(Base, original_bytes,
                                               Lower(original_path.ext), "Traceback", e))

action_remove_bg ==
    /\ buttons /\ REMBG_OK
    /\ IF ~REMBG_OK \/ Falsy(current_bytes) THEN Apply("remove_bg", Base)
       ELSE \E o \in RembgOutcomes :
                LET r == RunRembg(Base, current_bytes, o)
                IN  IF ~r.ok THEN Apply("remove_bg", Shown(r.s, "Remove Background"))
                    ELSE \E e \in ReaderCases :
                             Apply("remove_bg",
                                   set_from_bytes(r.s, r.out, ".png", "Remove Background", e))

action_strip_all ==
    /\ buttons
    /\ IF Falsy(current_bytes) THEN Apply("strip_all", Base)
       ELSE LET img == open_image_any(current_bytes)
            IN  IF img = Raise THEN Apply("strip_all", Shown(Base, "Strip ALL"))
                ELSE \E e \in ReaderCases :
                         Apply("strip_all",
                               set_from_bytes(Base, to_png_bytes([img EXCEPT !.mode = "RGBA"]),
                                              ".png", "Strip ALL", e))

action_strip(kind) ==
    /\ buttons /\ EXIFTOOL
    /\ IF Falsy(current_bytes) THEN Apply("strip", Base)
       ELSE IF ~EXIFTOOL THEN Apply("strip", Shown(Base, "ExifTool required"))
       ELSE \E we \in WriterCases :
                LET w == RunWriter(Base, EXIFTOOL, current_bytes, <<kind>>, we)
                IN  IF ~w.ok THEN Apply("strip", Shown(w.s, "Strip metadata"))
                    ELSE \E e \in ReaderCases :
                             Apply("strip",
                                   set_from_bytes(w.s, w.out, current_ext, "Strip metadata", e))

action_convert(fmt) ==
    /\ buttons
    /\ IF Falsy(current_bytes) THEN Apply("convert", Base)
       ELSE LET img == open_image_any(current_bytes)
            IN  IF img = Raise THEN Apply("convert", Shown(Base, "Convert"))
                ELSE \E e \in ReaderCases :
                         Apply("convert",
                               set_from_bytes(Base,
                                   save_as(IF fmt = "JPEG" THEN ensure_rgb(img) ELSE img, fmt),
                                   FormatExt(fmt), "Convert", e))

action_watermark ==
    /\ buttons
    /\ IF Falsy(current_bytes) THEN Apply("watermark", Base)
       ELSE \E o \in WatermarkOutcomes :
                LET w == RunWatermark(Base, current_bytes, o)
                IN  IF ~w.ok THEN Apply("watermark", Shown(w.s, "Watermark"))
                    ELSE \E e \in ReaderCases :
                             Apply("watermark",
                                   set_from_bytes(w.s, w.out, ".png", "Watermark", e))

\* safe_strip_only without the check that ExifTool was found
safe_strip_only_unchecked(name) ==
    \E we \in WriterCases :
        LET w == RunWriter(Base, EXIFTOOL, current_bytes, AllCategories, we)
        IN  IF ~w.ok THEN Apply(name, Shown(w.s, "SAFE (strip-only)"))
            ELSE \E e \in ReaderCases :
                     Apply(name, set_from_bytes(w.s, w.out, current_ext,
                                                "SAFE (strip-only)", e))

\* the strip-only branch of action_safe
safe_strip_only(name) ==
    IF ~EXIFTOOL THEN Apply(name, Shown(Base, "ExifTool required"))
    ELSE \E we \in WriterCases :
             LET w == RunWriter(Base, EXIFTOOL, current_bytes, AllCategories, we)
             IN  IF ~w.ok THEN Apply(name, Shown(w.s, "SAFE (strip-only)"))
                 ELSE \E e \in ReaderCases :
                          Apply(name, set_from_bytes(w.s, w.out, current_ext,
                                                     "SAFE (strip-only)", e))

\* safe_full_strip going on to the watermark with the unstripped bytes when
\* the writer fails
safe_full_strip_swallow(name, s, data) ==
    \E we \in WriterCases :
        LET st == IF EXIFTOOL THEN RunWriter(s, EXIFTOOL, data, AllCategories, we)
                  ELSE [ok |-> TRUE, out |-> data, s |-> s]
        IN  \E wo \in WatermarkOutcomes :
                LET w == RunWatermark(st.s, IF st.ok THEN st.out ELSE data, wo)
                IN  IF ~w.ok THEN Apply(name, Shown(w.s, "SAFE (full)"))
                    ELSE \E e \in ReaderCases :
                             Apply(name, set_from_bytes(w.s, w.out, ".png",
                                                        "SAFE (full)", e))

\* safe_full_strip with the watermark stage before the metadata stage
safe_full_strip_wm_first(name, s, data) ==
    \E wo \in WatermarkOutcomes :
        LET w == RunWatermark(s, data, wo)
        IN  IF ~w.ok THEN Apply(name, Shown(w.s, "SAFE (full)"))
            ELSE \E we \in WriterCases :
                     LET st == IF EXIFTOOL
                               THEN RunWriter(w.s, EXIFTOOL, w.out, AllCategories, we)
                               ELSE [ok |-> TRUE, out |-> w.out, s |-> w.s]
                     IN  IF ~st.ok THEN Apply(name, Shown(st.s, "SAFE (full)"))
                         ELSE \E e \in ReaderCases :
                                  Apply(name, set_from_bytes(st.s, st.out, ".png",
                                                             "SAFE (full)", e))

\* the full pipeline of action_safe, from the metadata stage on
safe_full_strip(name, s, data) ==
    \E we \in WriterCases :
        LET st == IF EXIFTOOL THEN RunWriter(s, EXIFTOOL, data, AllCategories, we)
                  ELSE [ok |-> TRUE, out |-> data, s |-> s]
        IN  IF ~st.ok THEN Apply(name, Shown(st.s, "SAFE (full)"))
            ELSE \E wo \in WatermarkOutcomes :
                     LET w == RunWatermark(st.s, st.out, wo)
                     IN  IF ~w.ok THEN Apply(name, Shown(w.s, "SAFE (full)"))
                         ELSE \E e \in ReaderCases :
                                  Apply(name, set_from_bytes(w.s, w.out, ".png",
                                                             "SAFE (full)", e))

\* the full pipeline of action_safe
safe_full(name) ==
    IF REMBG_OK
    THEN \E ro \in RembgOutcomes :
             LET bg == RunRembg(Base, current_bytes, ro)
             IN  IF ~bg.ok THEN Apply(name, Shown(bg.s, "SAFE (full)"))
                 ELSE safe_full_strip(name, bg.s, bg.out)
    ELSE safe_full_strip(name, Base, current_bytes)

action_safe(strip_only) ==
    /\ buttons
    /\ IF Falsy(current_bytes) THEN Apply("safe", Base)
       ELSE IF strip_only THEN safe_strip_only("safe_strip_only")
       ELSE safe_full("safe_full")

-----------------------------------------------------------------------------
(* summarize_exif *)

\* The values a metadata dictionary holds: numbers and strings from
\* ExifTool's JSON, None and rational tuples from the Pillow fallback.
PyFloat(x) == [py |-> "float", v |-> x]

PyStr(x) == [py |-> "str", v |-> x]

PyTuple(x) == [py |-> "tuple", v |-> x]

\* str(x).strip()
str_strip(x) ==
    IF x = None THEN "None"
    ELSE IF x.py = "str" THEN (IF x.v \in {"", " "} THEN "" ELSE x.v)
    ELSE x.v

\* float(x): a number is itself, a string is parsed ("inf" and "nan" are
\* accepted spellings), anything else raises.
float(x) ==
    IF x = None THEN Raise
    ELSE IF x.py = "float" THEN [finite |-> TRUE, x |-> x.v]
    ELSE IF x.py = "str"
         THEN IF x.v = "12" THEN [finite |-> TRUE, x |-> "12.0"]
              ELSE IF x.v \in {"inf", "nan"} THEN [finite |-> FALSE, x |-> x.v]
              ELSE Raise
    ELSE Raise

\* The keys of the sampled dictionaries whose lower-cased name contains "serial".
SerialKeys == {"SerialNumber", "EXIF:BodySerialNumber"}

gv(ex, keys) ==
    LET hits == {i \in 1..Len(keys) : keys[i] \in DOMAIN ex /\ str_strip(ex[keys[i]]) # ""}
    IN  IF hits = {} THEN None
        ELSE ex[keys[CHOOSE i \in hits : \A j \in hits : i <= j]]

summarize_exif(ex) ==
    LET lat == gv(ex, <<"GPSLatitude", "EXIF:GPSLatitude">>)
        lon == gv(ex, <<"GPSLongitude", "EXIF:GPSLongitude">>)
        gps == IF lat # None /\ lon # None
               THEN IF float(lat) = Raise \/ float(lon) = Raise THEN None
                    ELSE [lat |-> float(lat), lon |-> float(lon)]
               ELSE None
    IN  [gps |-> gps,
         make |-> gv(ex, <<"Make", "EXIF:Make", "XMP:Make">>),
         model |-> gv(ex, <<"Model", "EXIF:Model", "XMP:Model">>),
         owner |-> gv(ex, <<"Artist", "EXIF:Artist", "XMP:Creator", "XMP:OwnerName",
                            "Microsoft:XPAuthor">>),
         software |-> gv(ex, <<"Software", "EXIF:Software", "XMP:CreatorTool">>),
         captured |-> gv(ex, <<"DateTimeOriginal", "EXIF:DateTimeOriginal",
                               "CreateDate", "EXIF:CreateDate">>),
         serials |-> {k \in DOMAIN ex \cap SerialKeys : str_strip(ex[k]) # ""}]

-----------------------------------------------------------------------------
(* The session's behaviours *)

NoRd == [called |-> FALSE, tool |-> FALSE, data |-> None, tmpOk |-> FALSE, exit |-> 0,
         stdout |-> "blank", raised |-> FALSE, map |-> {}]

NoWr ==
    [called |-> FALSE, tool |-> FALSE, data |-> None, args |-> <<>>, tmpOk |-> FALSE,
     exit |-> 0, outExists |-> FALSE, readOk |-> FALSE, file |-> None, err |-> "none",
     out |-> None, ran |-> FALSE]

NoBs == [called |-> FALSE, categories |-> <<>>, args |-> <<>>]

NoSm == [called |-> FALSE, ex |-> [k \in {} |-> None], out |-> summarize_exif(<<>>)]

Init ==
    /\ EXIFTOOL \in BOOLEAN
    /\ REMBG_OK \in BOOLEAN
    /\ original_path = NoPath
    /\ original_bytes = None
    /\ current_bytes = None
    /\ current_image = None
    /\ current_exif = {}
    /\ current_ext = ".jpg"
    /\ rembg_session = FALSE
    /\ buttons = FALSE
    /\ msg = "none"
    /\ op = "init"
    /\ tmpfiles = {}
    /\ calls = <<>>
    /\ sets = <<>>
    /\ rd = NoRd
    /\ wr = NoWr
    /\ bs = NoBs
    /\ sm = NoSm

Next ==
    \/ \E f \in OpenChoices : action_open(f)
    \/ \E c \in SaveChoices : action_save(c)
    \/ action_revert
    \/ action_remove_bg
    \/ action_strip_all
    \/ \E kind \in Categories : action_strip(kind)
    \/ \E fmt \in Formats : action_convert(fmt)
    \/ action_watermark
    \/ \E strip_only \in BOOLEAN : action_safe(strip_only)

Spec == Init /\ [][Next]_vars

-----------------------------------------------------------------------------
(* The functions called on their own, on inputs drawn from bounded sets *)

MaxLen == 3

CategoryNames == Categories \cup {"location"}

SeqsUpTo(S, n) == UNION {[1..m -> S] : m \in 0..n}

SampleBytes ==
    { PhotoBytes, [PhotoBytes EXCEPT !.meta = {"gps"}], rembg_remove(ScanBytes),
      CorruptBytes, EmptyBytes }

call_build_strip_args(categories) ==
    /\ bs' = [called |-> TRUE, categories |-> categories,
              args |-> build_strip_args(categories)]
    /\ UNCHANGED <<EXIFTOOL, REMBG_OK, original_path, original_bytes, current_bytes,
                   current_image, current_exif, current_ext, rembg_session, buttons,
                   msg, op, tmpfiles, calls, sets, rd, wr, sm>>

call_exiftool_write_from_bytes(data, categories, e) ==
    LET args_list == build_strip_args(categories)
        w == exiftool_write_from_bytes(EXIFTOOL, data, args_list, e)
    IN  /\ wr' = [called |-> TRUE, tool |-> EXIFTOOL, data |-> data, args |-> args_list,
                  tmpOk |-> e.tmpOk, exit |-> e.exit, outExists |-> e.outExists,
                  readOk |-> e.readOk, file |-> ExifToolOutput(data, args_list, e.good),
                  err |-> w.err, out |-> w.out, ran |-> w.ran]
        /\ tmpfiles' = w.files
        /\ UNCHANGED <<EXIFTOOL, REMBG_OK, original_path, original_bytes, current_bytes,
                       current_image, current_exif, current_ext, rembg_session, buttons,
                       msg, op, calls, sets, rd, bs, sm>>

call_read_exif_from_bytes(data, e) ==
    LET r == read_exif_from_bytes(EXIFTOOL, data, e)
    IN  /\ rd' = [called |-> TRUE, tool |-> EXIFTOOL, data |-> data, tmpOk |-> e.tmpOk,
                  exit |-> e.exit, stdout |-> e.stdout, raised |-> r.raised,
                  map |-> r.map]
        /\ tmpfiles' = r.files
        /\ UNCHANGED <<EXIFTOOL, REMBG_OK, original_path, original_bytes, current_bytes,
                       current_image, current_exif, current_ext, rembg_session, buttons,
                       msg, op, calls, sets, wr, bs, sm>>

BuilderNext == \E categories \in SeqsUpTo(CategoryNames, MaxLen) :
                   call_build_strip_args(categories)

BuilderSpec == Init /\ [][BuilderNext]_vars

WriterNext == \E data \in SampleBytes, categories \in {<<"gps">>, AllCategories},
                 e \in WriterEnvs : call_exiftool_write_from_bytes(data, categories, e)

WriterSpec == Init /\ [][WriterNext]_vars

ReaderNext == \E data \in SampleBytes, e \in ReaderEnvs :
                  call_read_exif_from_bytes(data, e)

ReaderSpec == Init /\ [][ReaderNext]_vars

GpsKeys == {"GPSLatitude", "EXIF:GPSLatitude", "GPSLongitude", "EXIF:GPSLongitude"}

Absent == [k |-> "absent"]

SampleValues ==
    { PyFloat("0.0"), PyStr(""), PyStr(" "), PyStr("12"), PyStr("abc"), PyStr("inf"),
      PyStr("nan"), PyTuple("(40, 26, 46)"), None }

\* The dictionary ex with key k set to v, or without k when v is Absent.
With(ex, k, v) ==
    IF v = Absent THEN [j \in DOMAIN ex \ {k} |-> ex[j]]
    ELSE [j \in DOMAIN ex \cup {k} |-> IF j = k THEN v ELSE ex[j]]

call_summarize_exif(ex) ==
    /\ sm' = [called |-> TRUE, ex |-> ex, out |-> summarize_exif(ex)]
    /\ UNCHANGED <<EXIFTOOL, REMBG_OK, original_path, original_bytes, current_bytes,
                   current_image, current_exif, current_ext, rembg_session, buttons,
                   msg, op, tmpfiles, calls, sets, rd, wr, bs>>

SummarizerNext == \E k \in GpsKeys, v \in SampleValues \cup {Absent} :
                      call_summarize_exif(With(sm.ex, k, v))

SummarizerSpec == Init /\ [][SummarizerNext]_vars

-----------------------------------------------------------------------------
(* Properties *)

Decoded(data) ==
    IF open_image_any(data) = Raise THEN None ELSE open_image_any(data)

InSync == current_image = Decoded(current_bytes)

Fns(log) == [i \in 1..Len(log) |-> log[i].fn]

AllOk(log) == \A i \in 1..Len(log) : log[i].ok

\* C1: the current bytes and the decoded image are always in sync, and a
\* handler that runs on a loaded image and whose new bytes fail to decode
\* ("Cannot read image") leaves the current bytes, image, metadata and
\* format hint as they were.
C1_Claim ==
    /\ []InSync
    /\ [][(current_image # None /\ msg' = "Cannot read image")
           => ImageState' = ImageState]_vars

\* C2: when a stage of the full SAFE pipeline fails, it is the last stage
\* that ran, _set_from_bytes is not reached, and the ImageState is the one
\* before the call.
C2_AbortKeepsState ==
    [][(op' = "safe_full" /\ ~AllOk(calls'))
        => /\ \A i \in 1..Len(calls') : ~calls'[i].ok => i = Len(calls')
           /\ sets' = <<>>
           /\ msg' = "SAFE (full)"
           /\ ImageState' = ImageState]_vars

\* the watermark stage failed after background removal and the writer ran
C2_Witness ==
    /\ op = "safe_full"
    /\ Fns(calls) = <<"rembg", "writer", "watermark">>
    /\ ~calls[3].ok
    /\ current_bytes.k = "img"
    /\ current_bytes.meta = AllMeta

\* C3: a full SAFE run that succeeds ran background removal (if rembg is
\* there), then the writer with the directives of all three categories (if
\* ExifTool is there), then the watermark, and called _set_from_bytes once,
\* with the watermarked PNG, which is then the current image with the hint
\* ".png".
C3_OrderAndSingleSet ==
    [][(op' = "safe_full" /\ AllOk(calls') /\ sets' # <<>>)
        => /\ Fns(calls') = (IF REMBG_OK THEN <<"rembg">> ELSE <<>>)
                            \o (IF EXIFTOOL THEN <<"writer">> ELSE <<>>)
                            \o <<"watermark">>
           /\ \A i \in 1..Len(calls') :
                  calls'[i].fn = "writer"
                  => calls'[i].args = GPS_ARGS \o DEVICE_ARGS \o DATETIME_ARGS
           /\ Len(sets') = 1
           /\ sets'[1] = current_bytes'
           /\ current_ext' = ".png"
           /\ current_bytes' =
                  ImgBytes("PNG", "RGBA",
                           alpha_composite(current_bytes.px, SafeOpacity),
                           current_bytes.bg /\ ~REMBG_OK, {})
           /\ current_image' = Decoded(current_bytes')]_vars

\* a full SAFE run with all three stages succeeded on the photo
C3_Witness ==
    /\ op = "safe_full"
    /\ msg = "none"
    /\ Fns(calls) = <<"rembg", "writer", "watermark">>
    /\ AllOk(calls)
    /\ original_path.stem = "photo"
    /\ current_bytes.px = alpha_composite(PhotoBytes.px, SafeOpacity)

\* C4: strip-only SAFE calls the writer once, with the directives of gps,
\* device and datetime, and neither background removal nor the watermark;
\* without ExifTool it calls nothing, shows "ExifTool required" and leaves
\* the ImageState as it was.
C4_StripOnly ==
    [][op' = "safe_strip_only"
        => IF EXIFTOOL
           THEN /\ Fns(calls') = <<"writer">>
                /\ calls'[1].args = GPS_ARGS \o DEVICE_ARGS \o DATETIME_ARGS
           ELSE /\ calls' = <<>>
                /\ sets' = <<>>
                /\ msg' = "ExifTool required"
                /\ ImageState' = ImageState]_vars

\* strip-only SAFE was asked for on a loaded photo without ExifTool
C4_Witness ==
    /\ op = "safe_strip_only"
    /\ ~EXIFTOOL
    /\ msg = "ExifTool required"
    /\ current_bytes.k = "img"
    /\ current_bytes.meta = AllMeta

\* C5: the writer's result by exit status and output file (the temporary
\* files being writable and readable): 0 or 1 with output, the output; 0 or
\* 1 without, the input; another status with output, the output; another
\* status without, an execution error; and without the tool, tool
\* unavailable with no process started.
C5_WriterTable ==
    wr.called =>
        /\ ~wr.tool => wr.err = "unavailable" /\ ~wr.ran /\ tmpfiles = {}
        /\ (wr.tool /\ wr.tmpOk /\ wr.readOk) =>
              /\ wr.ran
              /\ (wr.exit \in {0, 1} /\ wr.outExists)
                     => wr.err = "none" /\ wr.out = wr.file
              /\ (wr.exit \in {0, 1} /\ ~wr.outExists)
                     => wr.err = "none" /\ wr.out = wr.data
              /\ (wr.exit \notin {0, 1} /\ wr.outExists)
                     => wr.err = "none" /\ wr.out = wr.file
              /\ (wr.exit \notin {0, 1} /\ ~wr.outExists)
                     => wr.err = "exec"

\* the salvage: exit status 2, and the stripped output file is returned
C5_Witness ==
    /\ wr.called /\ wr.tool /\ wr.exit = 2 /\ wr.outExists
    /\ wr.err = "none"
    /\ wr.data.k = "img" /\ wr.data.meta = AllMeta
    /\ wr.out.k = "img" /\ wr.out.meta = {}

\* C6: once a call of the writer is over, neither its temporary input file
\* nor its temporary output file exists.
C6_Claim == wr.called => tmpfiles \cap {"temp_in", "temp_out"} = {}

\* C7: the reader never raises, and returns the empty mapping when both the
\* tool and the fallback fail.
C7_Claim ==
    rd.called =>
        /\ ~rd.raised
        /\ ((~rd.tool \/ ~rd.tmpOk \/ rd.exit \notin {0, 1} \/ rd.stdout # "json")
            /\ (rd.data.k # "img" \/ rd.data.meta = {}))
           => rd.map = {}

\* C8: build_strip_args returns the directives of the requested known
\* categories, gps first, then device, then datetime, whatever the order,
\* the repetitions and the unknown names of its input; its length is the sum
\* of the requested categories' list lengths.
Requested == Elems(bs.categories) \cap Categories

LenIf(c, list) == IF c \in Requested THEN Len(list) ELSE 0

Rank(a) ==
    IF a \in Elems(GPS_ARGS) THEN 1
    ELSE IF a \in Elems(DEVICE_ARGS) THEN 2
    ELSE IF a \in Elems(DATETIME_ARGS) THEN 3
    ELSE 0

C8_BuildStripArgs ==
    bs.called =>
        /\ Len(bs.args) = LenIf("gps", GPS_ARGS) + LenIf("device", DEVICE_ARGS)
                          + LenIf("datetime", DATETIME_ARGS)
        /\ Elems(bs.args) = UNION {Elems(ArgsOf(c)) : c \in Requested}
        /\ \A i, j \in 1..Len(bs.args) : i < j => Rank(bs.args[i]) <= Rank(bs.args[j])
        /\ \A c \in Requested :
               \E k \in 0..(Len(bs.args) - Len(ArgsOf(c))) :
                   \A i \in 1..Len(ArgsOf(c)) : bs.args[k + i] = ArgsOf(c)[i]

\* the categories were given in reverse order, with an unknown name
C8_Witness ==
    /\ bs.called
    /\ bs.categories = <<"datetime", "location", "gps">>
    /\ bs.args[1] = "-GPS:all="
    /\ Len(bs.args) = 6

\* C9 as stated: build_strip_args(["device"]) returns nine directives.
C9_Claim == (bs.called /\ bs.categories = <<"device">>) => Len(bs.args) = 9

\* C9 as amended: build_strip_args(["device"]) returns ten directives, those
\* clearing make, model, the four serial numbers, lens model, lens id,
\* artist and owner name.
C9_TenDirectives ==
    (bs.called /\ bs.categories = <<"device">>)
        => /\ Len(bs.args) = 10
           /\ Elems(bs.args) = {"-Make=", "-Model=", "-SerialNumber=",
                                "-BodySerialNumber=", "-CameraSerialNumber=",
                                "-LensSerialNumber=", "-LensModel=", "-LensID=",
                                "-Artist=", "-OwnerName="}

C9_Witness == bs.called /\ bs.categories = <<"device">> /\ bs.args[10] = "-OwnerName="

\* C10: a second successful run of the full SAFE pipeline leaves the image
\* content as the first successful run left it.
C10_Claim ==
    [][(op = "safe_full" /\ AllOk(calls) /\ sets # <<>> /\ msg = "none"
        /\ op' = "safe_full" /\ AllOk(calls') /\ sets' # <<>> /\ msg' = "none")
        => current_bytes' = current_bytes]_vars

LatitudeAliases == <<"GPSLatitude", "EXIF:GPSLatitude">>

LongitudeAliases == <<"GPSLongitude", "EXIF:GPSLongitude">>

\* Some alias of keys is present in ex with a non-empty value that parses
\* as a finite number.
FiniteAlias(ex, keys) ==
    \E i \in 1..Len(keys) :
        /\ keys[i] \in DOMAIN ex
        /\ str_strip(ex[keys[i]]) # ""
        /\ float(ex[keys[i]]) # Raise
        /\ float(ex[keys[i]]).finite

\* C11: summarize_exif returns either no GPS field or a pair of two finite
\* numbers, and a pair only when a latitude alias and a longitude alias are
\* both present with non-empty values that parse as finite numbers.
C11_Claim ==
    sm.called =>
        \/ sm.out.gps = None
        \/ /\ sm.out.gps.lat.finite /\ sm.out.gps.lon.finite
           /\ FiniteAlias(sm.ex, LatitudeAliases)
           /\ FiniteAlias(sm.ex, LongitudeAliases)

\* C12: the original snapshot (bytes and path) changes only when Open has
\* read and decoded a file; no other handler modifies it, and an Open whose
\* file cannot be read or decoded does not replace it.
C12_Claim ==
    [][(original_bytes # None
        /\ <<original_bytes, original_path>>' # <<original_bytes, original_path>>)
        => (op' = "open" /\ open_image_any(original_bytes') # Raise)]_vars

\* The format hint action_open sets for a path.
LoadHint(path) == IF Lower(path.ext) # "" THEN Lower(path.ext) ELSE ".jpg"

\* C13: after a successful load and any transforms, Revert makes the current
\* bytes equal the original bytes and the format hint equal the hint set at
\* load time (the lower-cased extension, or ".jpg" without an extension).
C13_Claim ==
    [][(op' = "revert" /\ original_bytes # None
        /\ open_image_any(original_bytes) # Raise)
        => (current_bytes' = original_bytes
            /\ current_ext' = LoadHint(original_path))]_vars

====
